---- MODULE Spec2Model ----
(***************************************************************************)
(* Model of indxr's entry extraction and tag aggregation pipeline:         *)
(*   IndexParser.parse / IndexParser.parse_multiple   (indxr/parser.py)    *)
(*   MasterIndexGenerator._build_tag_index, _parse_page_num,               *)
(*   get_statistics                     (indxr/generators/master_index.py) *)
(* CompactIndexGenerator (indxr/generators/compact_index.py, lines 44-67   *)
(* and 253-270) repeats the same three methods line for line.              *)
(*                                                                         *)
(* Text is a sequence of one-character strings.  The content of a file is  *)
(* represented by the sequence of matches re.finditer yields on it under   *)
(* the pattern in use; a match is the tuple of its capture groups, and a   *)
(* group that did not participate in the match is None.  A Python dict is  *)
(* a sequence of [key, val] records in insertion order.  An exception is   *)
(* the name of its class; a call that raises ends in state "raised".       *)
(*                                                                         *)
(* Spec runs parse_multiple file by file over every list of files within   *)
(* the bounds; SpecIndex starts where parse_multiple has returned the      *)
(* mapping of one file and runs the generator's constructor and            *)
(* get_statistics on it.                                                   *)
(***************************************************************************)
EXTENDS Integers, Sequences, FiniteSets, TLC

VARIABLES pattern, files, idx, all_entries, warnings, pmState, pmError,
          gen_entries, tag_index, tiState, tiError, stats, statsState,
          run, first_result,
          text_segments, self_entries, parse_calls, parse_ret, parserState,
          parserError,
          compact_index, compactState, compactError, compact_stats,
          compactStatsState,
          command, cliStep, exit_code, generators, documents

parseVars == <<pattern, files, idx, all_entries, warnings, pmState, pmError>>
indexVars == <<gen_entries, tag_index, tiState, tiError, stats, statsState>>
rerunVars == <<run, first_result>>
parserVars ==
  <<text_segments, self_entries, parse_calls, parse_ret, parserState, parserError>>
compactVars ==
  <<compact_index, compactState, compactError, compact_stats, compactStatsState>>
cliVars == <<command, cliStep, exit_code, generators, documents>>
vars == <<pattern, files, idx, all_entries, warnings, pmState, pmError,
          gen_entries, tag_index, tiState, tiError, stats, statsState,
          run, first_result,
          text_segments, self_entries, parse_calls, parse_ret, parserState,
          parserError,
          compact_index, compactState, compactError, compact_stats,
          compactStatsState,
          command, cliStep, exit_code, generators, documents>>

----------------------------------------------------------------------------
(* Bounds *)

MaxFiles == 2
MaxMatches == 2
MaxIndexEntries == 3

----------------------------------------------------------------------------
(* Text *)

None == <<"<None>">>

Digits == {"0", "1", "2", "3", "4", "5", "6", "7", "8", "9"}

Letters ==
  <<"a", "b", "c", "d", "e", "f", "g", "h", "i", "j", "k", "l", "m",
    "n", "o", "p", "q", "r", "s", "t", "u", "v", "w", "x", "y", "z">>

LetterSet == {Letters[i] : i \in 1..Len(Letters)}

UpperSet ==
  {"A", "B", "C", "D", "E", "F", "G", "H", "I", "J", "K", "L", "M",
   "N", "O", "P", "Q", "R", "S", "T", "U", "V", "W", "X", "Y", "Z"}

Whitespace == {" ", "\n", "\t"}

WordChars == Digits \cup LetterSet \cup UpperSet \cup {"_"}

DigitValue(c) ==
  CASE c = "0" -> 0 [] c = "1" -> 1 [] c = "2" -> 2 [] c = "3" -> 3
    [] c = "4" -> 4 [] c = "5" -> 5 [] c = "6" -> 6 [] c = "7" -> 7
    [] c = "8" -> 8 [] c = "9" -> 9

IsDigits(s) == Len(s) > 0 /\ \A i \in 1..Len(s) : s[i] \in Digits

RECURSIVE DigitsValue(_)
DigitsValue(s) ==
  IF Len(s) = 0 THEN 0
  ELSE 10 * DigitsValue(SubSeq(s, 1, Len(s) - 1)) + DigitValue(s[Len(s)])

RECURSIVE Strip(_)
Strip(s) ==
  IF Len(s) = 0 THEN s
  ELSE IF s[1] \in Whitespace THEN Strip(Tail(s))
  ELSE IF s[Len(s)] \in Whitespace THEN Strip(SubSeq(s, 1, Len(s) - 1))
  ELSE s

Ok(v) == [ok |-> TRUE, val |-> v, err |-> "none"]
Raise(e) == [ok |-> FALSE, val |-> 0, err |-> e]

\* Python's int(x) for x a str or None: surrounding whitespace is stripped,
\* one leading sign is accepted, the rest must be a non-empty run of digits.
PyInt(s) ==
  IF s = None THEN Raise("TypeError")
  ELSE LET t == Strip(s) IN
    IF Len(t) > 0 /\ t[1] \in {"-", "+"}
    THEN IF IsDigits(Tail(t))
         THEN Ok(IF t[1] = "-" THEN 0 - DigitsValue(Tail(t)) ELSE DigitsValue(Tail(t)))
         ELSE Raise("ValueError")
    ELSE IF IsDigits(t) THEN Ok(DigitsValue(t)) ELSE Raise("ValueError")

Contains(s, c) == \E i \in 1..Len(s) : s[i] = c

\* s.split(c)[0]: the text before the first occurrence of c (all of s if none)
RECURSIVE SplitFirst(_, _)
SplitFirst(s, c) ==
  IF Len(s) = 0 \/ s[1] = c THEN <<>>
  ELSE <<s[1]>> \o SplitFirst(Tail(s), c)

\* length of the longest run of word or hyphen characters starting at s[i]
RECURSIVE TagRun(_, _)
TagRun(s, i) ==
  IF i <= Len(s) /\ s[i] \in WordChars \cup {"-"} THEN 1 + TagRun(s, i + 1) ELSE 0

\* re.findall(r'#[\w\-]+', s) from position i on
RECURSIVE FindAllFrom(_, _)
FindAllFrom(s, i) ==
  IF i > Len(s) THEN <<>>
  ELSE IF s[i] = "#" /\ TagRun(s, i + 1) > 0
       THEN <<SubSeq(s, i, i + TagRun(s, i + 1))>>
            \o FindAllFrom(s, i + 1 + TagRun(s, i + 1))
       ELSE FindAllFrom(s, i + 1)

\* a tag list that keeps the first occurrence of each tag only
FindAllTags_Deduplicated(s) ==
  LET all == FindAllFrom(s, 1)
      keep == {i \in 1..Len(all) : \A j \in 1..(i - 1) : all[j] # all[i]}
      nth(k) == CHOOSE i \in keep : Cardinality({j \in keep : j < i}) = k - 1
  IN [k \in 1..Cardinality(keep) |-> all[nth(k)]]

FindAllTags(s) == FindAllFrom(s, 1)

----------------------------------------------------------------------------
(* Dicts in insertion order *)

DictHas(d, k) == \E i \in 1..Len(d) : d[i].key = k

DictGet(d, k) == d[CHOOSE i \in 1..Len(d) : d[i].key = k].val

\* a later value replaces the list instead of extending it
DictAppend_Overwrite(d, k, v) ==
  IF DictHas(d, k)
  THEN [i \in 1..Len(d) |-> IF d[i].key = k THEN [key |-> k, val |-> <<v>>] ELSE d[i]]
  ELSE Append(d, [key |-> k, val |-> <<v>>])

\* a new value goes to the front of the list of its key
DictAppend_Prepend(d, k, v) ==
  IF DictHas(d, k)
  THEN [i \in 1..Len(d) |->
          IF d[i].key = k THEN [key |-> k, val |-> <<v>> \o d[i].val] ELSE d[i]]
  ELSE Append(d, [key |-> k, val |-> <<v>>])

\* if k not in d: d[k] = [] ; d[k].append(v)
DictAppend(d, k, v) ==
  IF DictHas(d, k)
  THEN [i \in 1..Len(d) |->
          IF d[i].key = k THEN [key |-> k, val |-> Append(d[i].val, v)] ELSE d[i]]
  ELSE Append(d, [key |-> k, val |-> <<v>>])

----------------------------------------------------------------------------
(* parser.py *)

SlideEntry(b, p, t, g) ==
  [book_number |-> b, page_number |-> p, slide_title |-> t, tags |-> g]

DefaultPattern == [custom |-> FALSE, ngroups |-> 4]
CustomPattern(n) == [custom |-> TRUE, ngroups |-> n]

\* except (IndexError, ValueError): continue
Caught(err) == err \in {"IndexError", "ValueError"}

\* a loop body that keeps only the lower bound of a page range
MatchOutcome_NormalisedPage(m) ==
  IF Len(m) < 1 THEN [kind |-> "skip", err |-> "IndexError"]
  ELSE LET b == PyInt(m[1]) IN
    IF ~b.ok THEN [kind |-> IF Caught(b.err) THEN "skip" ELSE "raise", err |-> b.err]
    ELSE IF Len(m) < 4 THEN [kind |-> "skip", err |-> "IndexError"]
    ELSE IF m[4] = None THEN [kind |-> "raise", err |-> "TypeError"]
    ELSE [kind |-> "entry", err |-> "none",
          entry |-> SlideEntry(b.val, SplitFirst(m[2], "-"), m[3], FindAllTags(m[4]))]

\* the body of the loop over matches: what one match contributes
MatchOutcome(m) ==
  IF Len(m) < 1 THEN [kind |-> "skip", err |-> "IndexError"]
  ELSE LET b == PyInt(m[1]) IN
    IF ~b.ok THEN [kind |-> IF Caught(b.err) THEN "skip" ELSE "raise", err |-> b.err]
    ELSE IF Len(m) < 4 THEN [kind |-> "skip", err |-> "IndexError"]
    ELSE IF m[4] = None THEN [kind |-> "raise", err |-> "TypeError"]
    ELSE [kind |-> "entry", err |-> "none",
          entry |-> SlideEntry(b.val, m[2], m[3], FindAllTags(m[4]))]

\* the loop over matches, appending to self.entries
RECURSIVE ParseMatches(_, _)
ParseMatches(ms, entries) ==
  IF Len(ms) = 0 THEN [ok |-> TRUE, entries |-> entries, err |-> "none"]
  ELSE LET o == MatchOutcome(ms[1]) IN
    IF o.kind = "raise" THEN [ok |-> FALSE, entries |-> entries, err |-> o.err]
    ELSE IF o.kind = "skip" THEN ParseMatches(Tail(ms), entries)
    ELSE ParseMatches(Tail(ms), Append(entries, o.entry))

Readable(file) == file.kind = "text"

\* IndexParser(file_path, pattern).parse() on a fresh parser
parse(file) ==
  IF file.kind = "missing" THEN [ok |-> FALSE, entries |-> <<>>, err |-> "FileNotFoundError"]
  ELSE IF ~Readable(file) THEN [ok |-> FALSE, entries |-> <<>>, err |-> "IOError"]
  ELSE ParseMatches(file.matches, <<>>)

\* all entries of a file are filed under the book of its first entry
GroupByBook_UnderFirstBook(d, entries) ==
  IF Len(entries) = 0 THEN d
  ELSE LET k == entries[1].book_number IN
    IF DictHas(d, k)
    THEN [i \in 1..Len(d) |->
            IF d[i].key = k THEN [key |-> k, val |-> d[i].val \o entries] ELSE d[i]]
    ELSE Append(d, [key |-> k, val |-> entries])

\* for entry in entries: all_entries[entry.book_number].append(entry)
RECURSIVE GroupByBook(_, _)
GroupByBook(d, entries) ==
  IF Len(entries) = 0 THEN d
  ELSE GroupByBook(DictAppend(d, entries[1].book_number, entries[1]), Tail(entries))

\* a handler that lets IOError through
FileError_NotFoundOnly(err) == err \in {"FileNotFoundError"}

\* except (FileNotFoundError, IOError): print warning; continue
FileError(err) == err \in {"FileNotFoundError", "IOError"}

\* a loop body for which a readable file without entries is an error
FileStep_NoMatchIsError(d, file) ==
  LET r == parse(file) IN
    IF r.ok /\ Len(r.entries) = 0
    THEN [state |-> "raised", d |-> d, err |-> "ValueError", warned |-> FALSE]
    ELSE IF r.ok
    THEN [state |-> "running", d |-> GroupByBook(d, r.entries), err |-> "none", warned |-> FALSE]
    ELSE IF FileError(r.err)
    THEN [state |-> "running", d |-> d, err |-> "none", warned |-> TRUE]
    ELSE [state |-> "raised", d |-> d, err |-> r.err, warned |-> FALSE]

\* the body of the loop over the files, applied to the mapping d
FileStep(d, file) ==
  LET r == parse(file) IN
    IF r.ok
    THEN [state |-> "running", d |-> GroupByBook(d, r.entries), err |-> "none", warned |-> FALSE]
    ELSE IF FileError(r.err)
    THEN [state |-> "running", d |-> d, err |-> "none", warned |-> TRUE]
    ELSE [state |-> "raised", d |-> d, err |-> r.err, warned |-> FALSE]

RECURSIVE ParseMultipleFrom(_, _)
ParseMultipleFrom(fs, d) ==
  IF Len(fs) = 0 THEN [state |-> "returned", d |-> d, err |-> "none"]
  ELSE LET s == FileStep(d, fs[1]) IN
    IF s.state = "raised" THEN [state |-> "raised", d |-> <<>>, err |-> s.err]
    ELSE ParseMultipleFrom(Tail(fs), s.d)

\* IndexParser.parse_multiple(fs, pattern) as a function of the file list
parse_multiple(fs) == ParseMultipleFrom(fs, <<>>)

----------------------------------------------------------------------------
(* Inputs of parse_multiple *)

SeqsUpTo(S, n) == UNION {[1..k -> S] : k \in 0..n}

B1 == <<"1">>
B2 == <<"2">>
BadNum == <<"x">>
P1 == <<"1">>
P2 == <<"2">>
P1to2 == <<"1", "-", "2">>
PNoLower == <<"-", "1">>
Title == <<"T">>
TagA == <<"#", "a">>
TagsAB == <<"#", "a", " ", "#", "b">>
TagsBB == <<"#", "b", " ", "#", "b">>

\* matches the default pattern can yield: digits, digits or digits-digits,
\* a title, a block of tags
DefaultMatches ==
  {<<B1, P1, Title, TagA>>, <<B2, P1, Title, TagA>>, <<B1, P1to2, Title, TagA>>}

\* further matches a caller's four-group pattern can yield: a book or page
\* capture that is not a number, a group that did not participate
LooseMatches ==
  {<<BadNum, P1, Title, TagA>>, <<None, P1, Title, TagA>>,
   <<B1, BadNum, Title, TagA>>, <<B1, P1, Title, None>>}

MatchesOf(p) ==
  IF ~p.custom THEN DefaultMatches
  ELSE IF p.ngroups = 4 THEN {<<B1, P1, Title, TagA>>, <<B2, P1, Title, TagA>>} \cup LooseMatches
  ELSE IF p.ngroups < 4 THEN {SubSeq(m, 1, p.ngroups) : m \in DefaultMatches}
  ELSE {m \o [i \in 1..(p.ngroups - 4) |-> Title] : m \in DefaultMatches}

Patterns == {DefaultPattern, CustomPattern(3), CustomPattern(4), CustomPattern(5)}

UnreadableKinds == {"missing", "directory", "denied", "undecodable"}

TextFile(ms) == [kind |-> "text", matches |-> ms]
NoTextFile(k) == [kind |-> k, matches |-> <<>>]

\* the files with at most m matches
FilesOf(p, m) ==
  {TextFile(ms) : ms \in SeqsUpTo(MatchesOf(p), m)}
    \cup {NoTextFile(k) : k \in UnreadableKinds}

\* the lists of at most n files with at most m matches in all
RECURSIVE FileLists(_, _, _)
FileLists(p, n, m) ==
  IF n = 0 THEN {<<>>}
  ELSE {<<>>} \cup
       UNION {{<<file>> \o rest : rest \in FileLists(p, n - 1, m - Len(file.matches))} :
                file \in FilesOf(p, m)}

NoStats == [total_books |-> 0, total_slides |-> 0, total_tags |-> 0, top_tags |-> <<>>]

IndexIdle ==
  /\ gen_entries = <<>>
  /\ tag_index = <<>>
  /\ tiState = "none"
  /\ tiError = "none"
  /\ stats = NoStats
  /\ statsState = "none"

\* parse_multiple is in its first run
RerunIdle ==
  /\ run = 1
  /\ first_result = <<>>

\* no IndexParser object is under observation
ParserIdle ==
  /\ text_segments = <<>>
  /\ self_entries = <<>>
  /\ parse_calls = 0
  /\ parse_ret = <<>>
  /\ parserState = "none"
  /\ parserError = "none"

\* no CompactIndexGenerator exists
CompactIdle ==
  /\ compact_index = <<>>
  /\ compactState = "none"
  /\ compactError = "none"
  /\ compact_stats = NoStats
  /\ compactStatsState = "none"

\* no command of the command line is running
CliIdle ==
  /\ command = "none"
  /\ cliStep = "none"
  /\ exit_code = 0
  /\ generators = 0
  /\ documents = 0

\* parse_multiple(index_file_paths, pattern) is entered: all_entries = {}
Init ==
  /\ pattern \in Patterns
  /\ files \in FileLists(pattern, MaxFiles, MaxMatches)
  /\ idx = 1
  /\ all_entries = <<>>
  /\ warnings = <<>>
  /\ pmState = "running"
  /\ pmError = "none"
  /\ IndexIdle
  /\ RerunIdle
  /\ ParserIdle
  /\ CompactIdle
  /\ CliIdle

\* one iteration of "for file_path in index_file_paths"
ProcessFile ==
  /\ pmState = "running"
  /\ idx <= Len(files)
  /\ LET s == FileStep(all_entries, files[idx]) IN
       /\ all_entries' = s.d
       /\ pmState' = s.state
       /\ pmError' = s.err
       /\ idx' = IF s.state = "running" THEN idx + 1 ELSE idx
       /\ warnings' = IF s.warned THEN Append(warnings, idx) ELSE warnings
  /\ UNCHANGED <<pattern, files>>
  /\ UNCHANGED <<indexVars, rerunVars, parserVars, compactVars, cliVars>>

\* return all_entries
Return ==
  /\ pmState = "running"
  /\ idx > Len(files)
  /\ pmState' = "returned"
  /\ UNCHANGED <<pattern, files, idx, all_entries, warnings, pmError>>
  /\ UNCHANGED <<indexVars, rerunVars, parserVars, compactVars, cliVars>>

Next == ProcessFile \/ Return

Spec == Init /\ [][Next]_vars

\* a second call starts from what the first one left behind
FreshMapping_Leftover(prev) == prev

\* all_entries = {} at the start of every call
FreshMapping(prev) == <<>>

\* the outcome of a call: the mapping returned, or the error raised
Outcome == [state |-> pmState,
            d |-> IF pmState = "returned" THEN all_entries ELSE <<>>,
            err |-> pmError]

\* parse_multiple is called again on the same list, pattern and contents
Rerun ==
  /\ pmState \in {"returned", "raised"}
  /\ run = 1
  /\ run' = 2
  /\ first_result' = Outcome
  /\ all_entries' = FreshMapping(all_entries)
  /\ idx' = 1
  /\ warnings' = <<>>
  /\ pmState' = "running"
  /\ pmError' = "none"
  /\ UNCHANGED <<pattern, files>>
  /\ UNCHANGED <<indexVars, parserVars, compactVars, cliVars>>

NextRerun == ProcessFile \/ Return \/ Rerun

SpecRerun == Init /\ [][NextRerun]_vars

----------------------------------------------------------------------------
(* generators/master_index.py *)

TopN == 20

\* _parse_page_num(page_str)
_parse_page_num(page_str) ==
  IF page_str = None THEN Raise("TypeError")
  ELSE IF Contains(page_str, "-") THEN PyInt(SplitFirst(page_str, "-"))
  ELSE LET r == PyInt(page_str) IN
    IF r.ok \/ r.err # "ValueError" THEN r ELSE Ok(0)

\* only the first tag of an entry is indexed
AddTags_FirstOnly(tag_map, entry, tags) ==
  IF Len(tags) = 0 THEN tag_map ELSE DictAppend(tag_map, tags[1], entry)

\* for tag in entry.tags: tag_map[tag].append(entry)
RECURSIVE AddTags(_, _, _)
AddTags(tag_map, entry, tags) ==
  IF Len(tags) = 0 THEN tag_map
  ELSE AddTags(DictAppend(tag_map, tags[1], entry), entry, Tail(tags))

\* for entry in entries: ...
RECURSIVE AddEntries(_, _)
AddEntries(tag_map, entries) ==
  IF Len(entries) = 0 THEN tag_map
  ELSE AddEntries(AddTags(tag_map, entries[1], entries[1].tags), Tail(entries))

\* for book_num, entries in self.all_entries.items(): ...
RECURSIVE AddBooks(_, _)
AddBooks(tag_map, items) ==
  IF Len(items) = 0 THEN tag_map
  ELSE AddBooks(AddEntries(tag_map, items[1].val), Tail(items))

\* key=lambda e: (e.book_number, self._parse_page_num(e.page_number))
SortKey(e) == <<e.book_number, _parse_page_num(e.page_number).val>>

KeyRaises(bucket) ==
  {_parse_page_num(bucket[i].page_number).err : i \in 1..Len(bucket)} \ {"none"}

\* tuple comparison a < b
KeyLess(a, b) == a[1] < b[1] \/ (a[1] = b[1] /\ a[2] < b[2])

\* an insertion that puts e in front of the entries with an equal key
InsertSorted_BeforeEqual(sorted, e) ==
  LET before == {i \in 1..Len(sorted) : KeyLess(SortKey(sorted[i]), SortKey(e))}
      n == Cardinality(before)
  IN SubSeq(sorted, 1, n) \o <<e>> \o SubSeq(sorted, n + 1, Len(sorted))

\* e goes behind every entry whose key is not greater than its own
InsertSorted(sorted, e) ==
  LET before == {i \in 1..Len(sorted) : ~KeyLess(SortKey(e), SortKey(sorted[i]))}
      n == Cardinality(before)
  IN SubSeq(sorted, 1, n) \o <<e>> \o SubSeq(sorted, n + 1, Len(sorted))

\* list.sort(key=...): stable, ascending
RECURSIVE SortBucket(_, _)
SortBucket(bucket, sorted) ==
  IF Len(bucket) = 0 THEN sorted
  ELSE SortBucket(Tail(bucket), InsertSorted(sorted, bucket[1]))

\* _build_tag_index(): the tag index, or the error a sort key raised
_build_tag_index(entries_map) ==
  LET tag_map == AddBooks(<<>>, entries_map)
      failing == {i \in 1..Len(tag_map) : KeyRaises(tag_map[i].val) # {}}
  IN IF failing # {}
     THEN LET i == CHOOSE k \in failing : \A l \in failing : k <= l
              j == CHOOSE k \in 1..Len(tag_map[i].val) :
                     /\ ~_parse_page_num(tag_map[i].val[k].page_number).ok
                     /\ \A l \in 1..(k - 1) : _parse_page_num(tag_map[i].val[l].page_number).ok
          IN [ok |-> FALSE, index |-> <<>>,
              err |-> _parse_page_num(tag_map[i].val[j].page_number).err]
     ELSE [ok |-> TRUE, err |-> "none",
           index |-> [i \in 1..Len(tag_map) |->
                        [key |-> tag_map[i].key, val |-> SortBucket(tag_map[i].val, <<>>)]]]

RECURSIVE SumLens(_)
SumLens(d) == IF Len(d) = 0 THEN 0 ELSE Len(d[1].val) + SumLens(Tail(d))

\* an insertion that puts an item in front of the items of equal size
InsertByCount_BeforeEqual(sorted, item) ==
  LET before == {i \in 1..Len(sorted) : Len(sorted[i].val) > Len(item.val)}
      n == Cardinality(before)
  IN SubSeq(sorted, 1, n) \o <<item>> \o SubSeq(sorted, n + 1, Len(sorted))

\* item goes behind every item whose bucket is not smaller than its own
InsertByCount(sorted, item) ==
  LET before == {i \in 1..Len(sorted) : Len(sorted[i].val) >= Len(item.val)}
      n == Cardinality(before)
  IN SubSeq(sorted, 1, n) \o <<item>> \o SubSeq(sorted, n + 1, Len(sorted))

\* sorted(self.tag_index.items(), key=lambda x: len(x[1]), reverse=True)
RECURSIVE SortByCount(_, _)
SortByCount(items, sorted) ==
  IF Len(items) = 0 THEN sorted
  ELSE SortByCount(Tail(items), InsertByCount(sorted, items[1]))

TagStat(item) ==
  [tag |-> item.key,
   count |-> Len(item.val),
   books |-> Cardinality({item.val[i].book_number : i \in 1..Len(item.val)})]

\* statistics in which every tag occurrence counts as a slide
get_statistics_PerTag(entries_map, index) ==
  LET ranked == SortByCount(index, <<>>)
      tag_stats == [i \in 1..Len(ranked) |-> TagStat(ranked[i])]
  IN [total_books |-> Len(entries_map),
      total_slides |-> SumLens(index),
      total_tags |-> Len(index),
      top_tags |-> SubSeq(tag_stats, 1, IF Len(tag_stats) < TopN THEN Len(tag_stats) ELSE TopN)]

\* get_statistics()
get_statistics(entries_map, index) ==
  LET ranked == SortByCount(index, <<>>)
      tag_stats == [i \in 1..Len(ranked) |-> TagStat(ranked[i])]
  IN [total_books |-> Len(entries_map),
      total_slides |-> SumLens(entries_map),
      total_tags |-> Len(index),
      top_tags |-> SubSeq(tag_stats, 1, IF Len(tag_stats) < TopN THEN Len(tag_stats) ELSE TopN)]

\* tag block "#<lo> #<lo+1> ... #<hi>" over the letters
RECURSIVE TagBlock(_, _)
TagBlock(lo, hi) ==
  <<"#", Letters[lo]>> \o (IF lo < hi THEN <<" ">> \o TagBlock(lo + 1, hi) ELSE <<>>)

\* matches a caller's four-group pattern can yield, with pages out of order,
\* a range, a page that is no number and a range without lower bound
IndexMatches ==
  {<<b, p, Title, g>> : b \in {B1, B2}, p \in {P2, P1to2, BadNum, PNoLower},
                        g \in {TagsAB, TagsBB}}

\* matches that carry about TopN tags, alone or with a match that repeats
\* the last of them
WideInputs ==
  UNION {LET wide == <<B2, P1, Title, TagBlock(1, n)>>
             last == <<B1, P1, Title, TagBlock(n, n)>>
         IN {<<wide>>, <<wide, last>>, <<last, wide>>} : n \in (TopN - 1)..(TopN + 1)}

IndexInputs == SeqsUpTo(IndexMatches, MaxIndexEntries) \cup WideInputs

\* parse_multiple has returned the mapping of one file
InitIndex ==
  /\ pattern = CustomPattern(4)
  /\ files \in {<<TextFile(ms)>> : ms \in IndexInputs}
  /\ idx = 2
  /\ all_entries = parse_multiple(files).d
  /\ warnings = <<>>
  /\ pmState = "returned"
  /\ pmError = "none"
  /\ IndexIdle
  /\ RerunIdle
  /\ ParserIdle
  /\ CompactIdle
  /\ CliIdle

\* a build whose buckets are the per-book lists themselves: sorting them
\* reorders the mapping
MappingAfterBuild_SortedInPlace(entries_map) ==
  [i \in 1..Len(entries_map) |->
     [key |-> entries_map[i].key,
      val |-> IF KeyRaises(entries_map[i].val) = {}
              THEN SortBucket(entries_map[i].val, <<>>)
              ELSE entries_map[i].val]]

\* the mapping after _build_tag_index: it is only read, the buckets are new
\* lists and no entry is assigned to
MappingAfterBuild(entries_map) == entries_map

\* MasterIndexGenerator(all_entries): self.all_entries is the caller's mapping;
\* self.tag_index = self._build_tag_index()
Construct ==
  /\ pmState = "returned"
  /\ tiState = "none"
  /\ all_entries' = MappingAfterBuild(all_entries)
  /\ gen_entries' = all_entries'
  /\ LET r == _build_tag_index(all_entries) IN
       /\ tag_index' = r.index
       /\ tiState' = IF r.ok THEN "built" ELSE "raised"
       /\ tiError' = r.err
  /\ UNCHANGED <<stats, statsState>>
  /\ UNCHANGED <<pattern, files, idx, warnings, pmState, pmError>>
  /\ UNCHANGED <<rerunVars, parserVars, compactVars, cliVars>>

\* generator.get_statistics()
GetStatistics ==
  /\ tiState = "built"
  /\ stats' = get_statistics(gen_entries, tag_index)
  /\ statsState' = "returned"
  /\ UNCHANGED <<gen_entries, tag_index, tiState, tiError>>
  /\ UNCHANGED <<parseVars, rerunVars, parserVars, compactVars, cliVars>>

NextIndex == Construct \/ GetStatistics

SpecIndex == InitIndex /\ [][NextIndex]_vars

----------------------------------------------------------------------------
(* generators/compact_index.py *)

\* a page value that takes the upper bound of a range
Compact_parse_page_num_UpperBound(page_str) ==
  IF page_str = None THEN Raise("TypeError")
  ELSE IF Contains(page_str, "-")
       THEN PyInt(SubSeq(page_str, Len(SplitFirst(page_str, "-")) + 2, Len(page_str)))
  ELSE LET r == PyInt(page_str) IN
    IF r.ok \/ r.err # "ValueError" THEN r ELSE Ok(0)

\* CompactIndexGenerator._parse_page_num(page_str)
Compact_parse_page_num(page_str) ==
  IF page_str = None THEN Raise("TypeError")
  ELSE IF Contains(page_str, "-") THEN PyInt(SplitFirst(page_str, "-"))
  ELSE LET r == PyInt(page_str) IN
    IF r.ok \/ r.err # "ValueError" THEN r ELSE Ok(0)

\* for tag in entry.tags: tag_map[tag].append(entry)
RECURSIVE CompactAddTags(_, _, _)
CompactAddTags(tag_map, entry, tags) ==
  IF Len(tags) = 0 THEN tag_map
  ELSE CompactAddTags(DictAppend(tag_map, tags[1], entry), entry, Tail(tags))

RECURSIVE CompactAddEntries(_, _)
CompactAddEntries(tag_map, entries) ==
  IF Len(entries) = 0 THEN tag_map
  ELSE CompactAddEntries(CompactAddTags(tag_map, entries[1], entries[1].tags), Tail(entries))

RECURSIVE CompactAddBooks(_, _)
CompactAddBooks(tag_map, items) ==
  IF Len(items) = 0 THEN tag_map
  ELSE CompactAddBooks(CompactAddEntries(tag_map, items[1].val), Tail(items))

CompactSortKey(e) == <<e.book_number, Compact_parse_page_num(e.page_number).val>>

CompactKeyRaises(bucket) ==
  {Compact_parse_page_num(bucket[i].page_number).err : i \in 1..Len(bucket)} \ {"none"}

CompactInsertSorted(sorted, e) ==
  LET before == {i \in 1..Len(sorted) : ~KeyLess(CompactSortKey(e), CompactSortKey(sorted[i]))}
      n == Cardinality(before)
  IN SubSeq(sorted, 1, n) \o <<e>> \o SubSeq(sorted, n + 1, Len(sorted))

RECURSIVE CompactSortBucket(_, _)
CompactSortBucket(bucket, sorted) ==
  IF Len(bucket) = 0 THEN sorted
  ELSE CompactSortBucket(Tail(bucket), CompactInsertSorted(sorted, bucket[1]))

\* CompactIndexGenerator._build_tag_index()
Compact_build_tag_index(entries_map) ==
  LET tag_map == CompactAddBooks(<<>>, entries_map)
      failing == {i \in 1..Len(tag_map) : CompactKeyRaises(tag_map[i].val) # {}}
  IN IF failing # {}
     THEN LET i == CHOOSE k \in failing : \A l \in failing : k <= l
              j == CHOOSE k \in 1..Len(tag_map[i].val) :
                     /\ ~Compact_parse_page_num(tag_map[i].val[k].page_number).ok
                     /\ \A l \in 1..(k - 1) :
                          Compact_parse_page_num(tag_map[i].val[l].page_number).ok
          IN [ok |-> FALSE, index |-> <<>>,
              err |-> Compact_parse_page_num(tag_map[i].val[j].page_number).err]
     ELSE [ok |-> TRUE, err |-> "none",
           index |-> [i \in 1..Len(tag_map) |->
                        [key |-> tag_map[i].key,
                         val |-> CompactSortBucket(tag_map[i].val, <<>>)]]]

CompactTopN == 20

\* CompactIndexGenerator.get_statistics()
Compact_get_statistics(entries_map, index) ==
  LET ranked == SortByCount(index, <<>>)
      tag_stats == [i \in 1..Len(ranked) |->
                      [tag |-> ranked[i].key,
                       count |-> Len(ranked[i].val),
                       books |-> Cardinality({ranked[i].val[k].book_number :
                                                k \in 1..Len(ranked[i].val)})]]
  IN [total_books |-> Len(entries_map),
      total_slides |-> SumLens(entries_map),
      total_tags |-> Len(index),
      top_tags |-> SubSeq(tag_stats, 1,
                          IF Len(tag_stats) < CompactTopN THEN Len(tag_stats) ELSE CompactTopN)]

\* CompactIndexGenerator(all_entries), on the mapping the master generator
\* was given; the two generators share nothing but that mapping, so the
\* compact one is taken up when the master one is through
ConstructCompact ==
  /\ pmState = "returned"
  /\ tiState = "raised" \/ statsState = "returned"
  /\ compactState = "none"
  /\ LET r == Compact_build_tag_index(all_entries) IN
       /\ compact_index' = r.index
       /\ compactState' = IF r.ok THEN "built" ELSE "raised"
       /\ compactError' = r.err
  /\ UNCHANGED <<compact_stats, compactStatsState>>
  /\ UNCHANGED <<parseVars, indexVars, rerunVars, parserVars, cliVars>>

\* the compact generator's get_statistics()
GetStatisticsCompact ==
  /\ compactState = "built"
  /\ compactStatsState = "none"
  /\ compact_stats' = Compact_get_statistics(all_entries, compact_index)
  /\ compactStatsState' = "returned"
  /\ UNCHANGED <<compact_index, compactState, compactError>>
  /\ UNCHANGED <<parseVars, indexVars, rerunVars, parserVars, cliVars>>

NextBoth == Construct \/ GetStatistics \/ ConstructCompact \/ GetStatisticsCompact

SpecBoth == InitIndex /\ [][NextBoth]_vars

----------------------------------------------------------------------------
(* parser.py: DEFAULT_PATTERN on text, and one IndexParser object *)

MaxSegments == 2
MaxCalls == 2

LBook == <<"B", "o", "o", "k">>
LPage == <<"P", "a", "g", "e">>
LSlide == <<"S", "l", "i", "d", "e", ":">>
Quote == "\""

\* the number of consecutive characters of class C from s[i] on
RECURSIVE RunLen(_, _, _)
RunLen(s, i, C) == IF i <= Len(s) /\ s[i] \in C THEN 1 + RunLen(s, i + 1, C) ELSE 0

\* [^"]+ : the number of consecutive characters other than the quote
RECURSIVE TitleLen(_, _)
TitleLen(s, i) == IF i <= Len(s) /\ s[i] # Quote THEN 1 + TitleLen(s, i + 1) ELSE 0

LitAt(s, i, lit) == i + Len(lit) - 1 <= Len(s) /\ SubSeq(s, i, i + Len(lit) - 1) = lit

\* the position behind the literal at i; 0 when the match has failed
After(s, i, lit) == IF i # 0 /\ LitAt(s, i, lit) THEN i + Len(lit) ELSE 0

\* the position behind one or more characters of class C; 0 for failure
Skip1(s, i, C) == IF i # 0 /\ RunLen(s, i, C) > 0 THEN i + RunLen(s, i, C) ELSE 0

\* #[\w\-]+ at i
TagAt(s, i) ==
  IF i # 0 /\ i <= Len(s) /\ s[i] = "#" /\ RunLen(s, i + 1, WordChars \cup {"-"}) > 0
  THEN i + 1 + RunLen(s, i + 1, WordChars \cup {"-"})
  ELSE 0

\* (?:\s+#[\w\-]+)* from the position behind a tag
RECURSIVE MoreTags(_, _)
MoreTags(s, i) ==
  LET w == RunLen(s, i, Whitespace)
      t == IF w > 0 THEN TagAt(s, i + w) ELSE 0
  IN IF t = 0 THEN i ELSE MoreTags(s, t)

\* a match of DEFAULT_PATTERN that starts at i: the position behind it and
\* its four groups; end = 0 when there is none
MatchDefaultAt(s, i) ==
  LET a1 == After(s, i, LBook)
      g1 == Skip1(s, a1, Whitespace)
      a2 == Skip1(s, g1, Digits)
      a3 == Skip1(s, After(s, a2, <<",">>), Whitespace)
      g2 == Skip1(s, After(s, a3, LPage), Whitespace)
      a4 == Skip1(s, g2, Digits)
      a5 == IF a4 # 0 /\ LitAt(s, a4, <<"-">>) /\ RunLen(s, a4 + 1, Digits) > 0
            THEN a4 + 1 + RunLen(s, a4 + 1, Digits)
            ELSE a4
      a6 == Skip1(s, After(s, a5, <<",">>), Whitespace)
      a7 == Skip1(s, After(s, a6, LSlide), Whitespace)
      g3 == After(s, a7, <<Quote>>)
      a8 == IF g3 # 0 /\ TitleLen(s, g3) > 0 THEN g3 + TitleLen(s, g3) ELSE 0
      g4 == Skip1(s, After(s, a8, <<Quote>>), Whitespace)
      a9 == IF TagAt(s, g4) = 0 THEN 0 ELSE MoreTags(s, TagAt(s, g4))
  IN IF a9 = 0 THEN [end |-> 0, groups |-> <<>>]
     ELSE [end |-> a9,
           groups |-> <<SubSeq(s, g1, a2 - 1), SubSeq(s, g2, a5 - 1),
                        SubSeq(s, g3, a8 - 1), SubSeq(s, g4, a9 - 1)>>]

\* re.finditer(DEFAULT_PATTERN, s): the matches from position i on, left to
\* right, each search starting behind the previous match
RECURSIVE FindIterFrom(_, _)
FindIterFrom(s, i) ==
  IF i > Len(s) THEN <<>>
  ELSE LET m == MatchDefaultAt(s, i) IN
    IF m.end # 0 THEN <<m.groups>> \o FindIterFrom(s, m.end)
    ELSE FindIterFrom(s, i + 1)

FindIterDefault(s) == FindIterFrom(s, 1)

B12 == <<"1", "2">>
TagHyphen == <<"#", "a", "-", "b">>

\* a line of the input format, followed by a newline
RecordLine(b, p, t, g) ==
  LBook \o <<" ">> \o b \o <<",", " ">> \o LPage \o <<" ">> \o p \o <<",", " ">>
    \o LSlide \o <<" ", Quote>> \o t \o <<Quote, " ">> \o g \o <<"\n">>

RecordSegment(n, b, p, t, g) ==
  [rec |-> TRUE, num |-> n, fields |-> <<b, p, t, g>>, text |-> RecordLine(b, p, t, g)]

JunkSegment(txt) == [rec |-> FALSE, num |-> 0, fields |-> <<>>, text |-> txt]

\* lines that are no record: a book that is no number, a line that stops
\* behind the page, a line of tags only
JunkLines ==
  {RecordLine(BadNum, P1, Title, TagA),
   LBook \o <<" ">> \o B1 \o <<",", " ">> \o LPage \o <<" ">> \o P1 \o <<"\n">>,
   <<"#", "b", "\n">>}

Segments ==
  {RecordSegment(1, B1, p, Title, g) : p \in {P1, P1to2}, g \in {TagA, TagsBB, TagHyphen}}
    \cup {RecordSegment(12, B12, p, Title, g) : p \in {P1, P1to2}, g \in {TagA, TagsBB, TagHyphen}}
    \cup {JunkSegment(txt) : txt \in JunkLines}

RECURSIVE Join(_)
Join(segs) == IF Len(segs) = 0 THEN <<>> ELSE segs[1].text \o Join(Tail(segs))

\* a parser that empties self.entries at every call
ParseCall_Reset(file, acc) ==
  IF ~Readable(file) THEN [ok |-> FALSE, entries |-> acc, err |-> "IOError"]
  ELSE ParseMatches(file.matches, <<>>)

\* parser.parse() on a parser whose self.entries is acc
ParseCall(file, acc) ==
  IF ~Readable(file) THEN [ok |-> FALSE, entries |-> acc, err |-> "IOError"]
  ELSE ParseMatches(file.matches, acc)

\* a file and a pattern for which IndexParser(file_path, pattern) is called
InitParser ==
  /\ pattern \in {DefaultPattern, CustomPattern(3), CustomPattern(4)}
  /\ IF pattern.custom
     THEN /\ files \in {<<f>> : f \in FilesOf(pattern, MaxMatches)}
          /\ text_segments = <<>>
     ELSE \/ /\ text_segments \in SeqsUpTo(Segments, MaxSegments)
             /\ files = <<TextFile(FindIterDefault(Join(text_segments)))>>
          \/ /\ text_segments = <<>>
             /\ files \in {<<NoTextFile(k)>> : k \in UnreadableKinds}
  /\ idx = 1
  /\ all_entries = <<>>
  /\ warnings = <<>>
  /\ pmState = "none"
  /\ pmError = "none"
  /\ self_entries = <<>>
  /\ parse_calls = 0
  /\ parse_ret = <<>>
  /\ parserState = "new"
  /\ parserError = "none"
  /\ IndexIdle
  /\ RerunIdle
  /\ CompactIdle
  /\ CliIdle

\* IndexParser.__init__
NewParser ==
  /\ parserState = "new"
  /\ IF files[1].kind = "missing"
     THEN parserState' = "raised" /\ parserError' = "FileNotFoundError"
     ELSE parserState' = "ready" /\ parserError' = "none"
  /\ self_entries' = <<>>
  /\ UNCHANGED <<text_segments, parse_calls, parse_ret>>
  /\ UNCHANGED <<parseVars, indexVars, rerunVars, compactVars, cliVars>>

\* one call of parser.parse()
CallParse ==
  /\ parserState = "ready"
  /\ parse_calls < MaxCalls
  /\ LET r == ParseCall(files[1], self_entries) IN
       /\ self_entries' = r.entries
       /\ parse_ret' = IF r.ok THEN r.entries ELSE parse_ret
       /\ parserError' = r.err
  /\ parse_calls' = parse_calls + 1
  /\ UNCHANGED <<text_segments, parserState>>
  /\ UNCHANGED <<parseVars, indexVars, rerunVars, compactVars, cliVars>>

NextParser == NewParser \/ CallParse

SpecParser == InitParser /\ [][NextParser]_vars

----------------------------------------------------------------------------
(* cli.py: the commands books, master and compact *)

Commands == {"books", "master", "compact"}

\* a command is entered with an existing index directory; files is what
\* sorted(index_dir.glob(file_pattern)) will find
InitCli ==
  /\ command \in Commands
  /\ cliStep = "start"
  /\ exit_code = 0
  /\ generators = 0
  /\ documents = 0
  /\ pattern \in Patterns
  /\ files \in FileLists(pattern, MaxFiles, MaxMatches)
  /\ idx = 1
  /\ all_entries = <<>>
  /\ warnings = <<>>
  /\ pmState = "none"
  /\ pmError = "none"
  /\ IndexIdle
  /\ RerunIdle
  /\ ParserIdle
  /\ CompactIdle

\* if not index_files: echo; sys.exit(1)
Discover ==
  /\ cliStep = "start"
  /\ IF Len(files) = 0
     THEN cliStep' = "exited" /\ exit_code' = 1
     ELSE cliStep' = "found" /\ exit_code' = exit_code
  /\ UNCHANGED <<command, generators, documents>>
  /\ UNCHANGED <<parseVars, indexVars, rerunVars, parserVars, compactVars>>

\* all_entries = IndexParser.parse_multiple(...); an exception ends the
\* process with a traceback and a non-zero status
ParseIndexFiles ==
  /\ cliStep = "found"
  /\ LET r == parse_multiple(files) IN
       /\ pmState' = r.state
       /\ pmError' = r.err
       /\ all_entries' = r.d
       /\ IF r.state = "raised"
          THEN cliStep' = "exited" /\ exit_code' = 1
          ELSE cliStep' = "parsed" /\ exit_code' = exit_code
  /\ UNCHANGED <<command, generators, documents>>
  /\ UNCHANGED <<pattern, files, idx, warnings>>
  /\ UNCHANGED <<indexVars, rerunVars, parserVars, compactVars>>

\* books only: if not all_entries: echo; sys.exit(1)
CheckEntries ==
  /\ command = "books"
  /\ cliStep = "parsed"
  /\ IF Len(all_entries) = 0
     THEN cliStep' = "exited" /\ exit_code' = 1
     ELSE cliStep' = "generating" /\ exit_code' = exit_code
  /\ UNCHANGED <<command, generators, documents>>
  /\ UNCHANGED <<parseVars, indexVars, rerunVars, parserVars, compactVars>>

\* sorted(all_entries.items())[n - 1]
BookAt(d, n) ==
  d[CHOOSE i \in 1..Len(d) : Cardinality({j \in 1..Len(d) : d[j].key < d[i].key}) = n - 1]

\* BookPDFGenerator._get_page_range raises: int() of the text before a hyphen
\* is outside the try
PageRangeRaises(entries) ==
  \E i \in 1..Len(entries) :
    LET page_str == IF entries[i].page_number = None
                    THEN <<"N", "o", "n", "e">>
                    ELSE entries[i].page_number
    IN Contains(page_str, "-") /\ ~PyInt(SplitFirst(page_str, "-")).ok

\* one iteration of the loop over the books: BookPDFGenerator(...).generate()
GenerateBook ==
  /\ command = "books"
  /\ cliStep = "generating"
  /\ generators < Len(all_entries)
  /\ generators' = generators + 1
  /\ IF PageRangeRaises(BookAt(all_entries, generators + 1).val)
     THEN cliStep' = "exited" /\ exit_code' = 1 /\ documents' = documents
     ELSE /\ documents' = documents + 1
          /\ cliStep' = IF generators + 1 = Len(all_entries) THEN "done" ELSE "generating"
          /\ exit_code' = exit_code
  /\ UNCHANGED command
  /\ UNCHANGED <<parseVars, indexVars, rerunVars, parserVars, compactVars>>

\* master: MasterIndexGenerator(all_entries, ...), right after the parse
ConstructMaster ==
  /\ command = "master"
  /\ cliStep = "parsed"
  /\ generators' = generators + 1
  /\ gen_entries' = all_entries
  /\ LET r == _build_tag_index(all_entries) IN
       /\ tag_index' = r.index
       /\ tiState' = IF r.ok THEN "built" ELSE "raised"
       /\ tiError' = r.err
       /\ IF r.ok
          THEN cliStep' = "constructed" /\ exit_code' = exit_code
          ELSE cliStep' = "exited" /\ exit_code' = 1
  /\ UNCHANGED <<command, documents, stats, statsState>>
  /\ UNCHANGED <<parseVars, rerunVars, parserVars, compactVars>>

\* compact: CompactIndexGenerator(all_entries, ...), right after the parse
ConstructCompactCli ==
  /\ command = "compact"
  /\ cliStep = "parsed"
  /\ generators' = generators + 1
  /\ LET r == Compact_build_tag_index(all_entries) IN
       /\ compact_index' = r.index
       /\ compactState' = IF r.ok THEN "built" ELSE "raised"
       /\ compactError' = r.err
       /\ IF r.ok
          THEN cliStep' = "constructed" /\ exit_code' = exit_code
          ELSE cliStep' = "exited" /\ exit_code' = 1
  /\ UNCHANGED <<command, documents, compact_stats, compactStatsState>>
  /\ UNCHANGED <<parseVars, indexVars, rerunVars, parserVars>>

\* stats = generator.get_statistics(); output_file = generator.generate():
\* the document is the title page and one section per tag
GenerateIndex ==
  /\ command \in {"master", "compact"}
  /\ cliStep = "constructed"
  /\ IF command = "master"
     THEN /\ stats' = get_statistics(gen_entries, tag_index)
          /\ statsState' = "returned"
          /\ UNCHANGED <<compact_stats, compactStatsState>>
     ELSE /\ compact_stats' = Compact_get_statistics(all_entries, compact_index)
          /\ compactStatsState' = "returned"
          /\ UNCHANGED <<stats, statsState>>
  /\ documents' = documents + 1
  /\ cliStep' = "done"
  /\ UNCHANGED <<command, exit_code, generators>>
  /\ UNCHANGED <<gen_entries, tag_index, tiState, tiError>>
  /\ UNCHANGED <<compact_index, compactState, compactError>>
  /\ UNCHANGED <<parseVars, rerunVars, parserVars>>

NextCli ==
  \/ Discover
  \/ ParseIndexFiles
  \/ CheckEntries
  \/ GenerateBook
  \/ ConstructMaster
  \/ ConstructCompactCli
  \/ GenerateIndex

SpecCli == InitCli /\ [][NextCli]_vars

----------------------------------------------------------------------------
(* Properties of one IndexParser object *)

\* the first call of parse() on a readable file is over
ParsedOnce == parserState = "ready" /\ parse_calls = 1 /\ Readable(files[1])

Matches == files[1].matches

\* a capture that int() accepts, and its value
IsIntLiteral(c) ==
  /\ c # None
  /\ LET t == Strip(c) IN
       \/ IsDigits(t)
       \/ Len(t) > 1 /\ t[1] \in {"+", "-"} /\ IsDigits(Tail(t))

IntLiteralValue(c) ==
  LET t == Strip(c) IN
    IF t[1] = "-" THEN 0 - DigitsValue(Tail(t))
    ELSE IF t[1] = "+" THEN DigitsValue(Tail(t))
    ELSE DigitsValue(t)

\* entry e is what match m yields: integer book, page and title verbatim
EntryOfMatch(e, m) ==
  /\ Len(m) >= 3
  /\ IsIntLiteral(m[1])
  /\ e.book_number = IntLiteralValue(m[1])
  /\ e.page_number = m[2]
  /\ e.slide_title = m[3]

RecordSegments == SelectSeq(text_segments, LAMBDA g : g.rec)

\* C11 as stated: for every text and pattern, parse yields exactly one Entry
\* per match, in match order, with book_number the integer value of capture 1,
\* page_number capture 2 verbatim and slide_title capture 3 verbatim.
\* Stated here for the patterns all of whose captures took part in every match.
C11_OneEntryPerMatch ==
  (ParsedOnce /\ \A i \in 1..Len(Matches) :
                   Len(Matches[i]) = 4 /\ \A k \in 1..4 : Matches[i][k] # None) =>
    /\ parserError = "none"
    /\ Len(self_entries) = Len(Matches)
    /\ \A i \in 1..Len(self_entries) : EntryOfMatch(self_entries[i], Matches[i])

\* C11 amended: for every text and pattern, parse yields at most one Entry per
\* match, in match order, and none for a match whose capture 1 is no integer
\* literal; an Entry's book_number is the integer value of its match's capture
\* 1, its page_number capture 2 verbatim (a range stays a range), its
\* slide_title capture 3 verbatim.  Under the default pattern every match
\* yields exactly one Entry, and the entries are the record lines of the text
\* in order: text outside matches contributes nothing.
C11_EntriesFollowMatches ==
  ParsedOnce =>
    /\ \E f \in [1..Len(self_entries) -> 1..Len(Matches)] :
         /\ \A i, j \in 1..Len(self_entries) : i < j => f[i] < f[j]
         /\ \A i \in 1..Len(self_entries) : EntryOfMatch(self_entries[i], Matches[f[i]])
    /\ ~pattern.custom =>
         /\ parserError = "none"
         /\ parse_ret = self_entries
         /\ Len(self_entries) = Len(Matches)
         /\ Len(self_entries) = Len(RecordSegments)
         /\ \A i \in 1..Len(self_entries) :
              /\ EntryOfMatch(self_entries[i], Matches[i])
              /\ self_entries[i].book_number = RecordSegments[i].num
              /\ self_entries[i].page_number = RecordSegments[i].fields[2]
              /\ self_entries[i].slide_title = RecordSegments[i].fields[3]

\* a text with a junk line between two records, one of them with a page range
C11_Witness ==
  /\ ParsedOnce
  /\ ~pattern.custom
  /\ Len(text_segments) > Len(self_entries)
  /\ \E i \in 1..Len(self_entries) : self_entries[i].page_number = P1to2

\* s.split(): the maximal runs of characters that are no whitespace
RECURSIVE WordsOf(_)
WordsOf(s) ==
  IF Len(s) = 0 THEN <<>>
  ELSE IF s[1] \in Whitespace THEN WordsOf(Tail(s))
  ELSE LET n == CHOOSE k \in 1..Len(s) :
                  /\ \A i \in 1..k : s[i] \notin Whitespace
                  /\ k = Len(s) \/ s[k + 1] \in Whitespace
       IN <<SubSeq(s, 1, n)>> \o WordsOf(SubSeq(s, n + 1, Len(s)))

IsTagToken(t) ==
  /\ Len(t) >= 2
  /\ t[1] = "#"
  /\ \A i \in 2..Len(t) : t[i] \in WordChars \cup {"-"}

\* C12: under the default pattern every Entry's tags are non-empty, each of
\* the form '#' and one or more word or hyphen characters, and they are the
\* tokens of the match's tag block in their order, repeated ones included.
C12_TagsMirrorTagBlock ==
  (ParsedOnce /\ ~pattern.custom) =>
    /\ Len(self_entries) = Len(Matches)
    /\ \A i \in 1..Len(self_entries) :
         /\ Len(self_entries[i].tags) >= 1
         /\ \A k \in 1..Len(self_entries[i].tags) : IsTagToken(self_entries[i].tags[k])
         /\ self_entries[i].tags = WordsOf(Matches[i][4])

\* a record with the same tag twice, and one whose tag has a hyphen
C12_Witness ==
  /\ ParsedOnce
  /\ ~pattern.custom
  /\ \E i \in 1..Len(self_entries) : self_entries[i].tags = <<<<"#", "b">>, <<"#", "b">>>>
  /\ \E i \in 1..Len(self_entries) : self_entries[i].tags = <<TagHyphen>>

\* the entries of one parse of the file by a new parser
RECURSIVE Repeat(_, _)
Repeat(seq, k) == IF k = 0 THEN <<>> ELSE seq \o Repeat(seq, k - 1)

\* C18: parse() does not reset self.entries: the list the k-th call on one
\* parser returns is the file's entry sequence repeated k times.
C18_ParseAccumulates ==
  (parserState = "ready" /\ parse_calls >= 1 /\ parserError = "none") =>
    /\ parse_ret = Repeat(ParseMatches(Matches, <<>>).entries, parse_calls)
    /\ self_entries = parse_ret

C18_Witness ==
  /\ parse_calls = 2
  /\ parserError = "none"
  /\ Len(parse_ret) = 2
  /\ parse_ret[1] = parse_ret[2]

----------------------------------------------------------------------------
(* Properties of parse and parse_multiple *)

Finished == pmState \in {"returned", "raised"}

ReadableFiles == SelectSeq(files, Readable)

\* the entries of the readable files, file after file, in order of appearance
RECURSIVE EntriesOfFiles(_)
EntriesOfFiles(fs) ==
  IF Len(fs) = 0 THEN <<>>
  ELSE (IF Readable(fs[1]) THEN parse(fs[1]).entries ELSE <<>>) \o EntriesOfFiles(Tail(fs))

EntriesOfBook(es, b) == LET OfBook(e) == e.book_number = b IN SelectSeq(es, OfBook)

\* no file of the list is readable, or no readable file has a match
NoData == \A i \in 1..Len(files) : ~Readable(files[i]) \/ Len(files[i].matches) = 0

\* C14: if no file is readable or no text matches the pattern, parse_multiple
\* raises no error and the mapping it builds and returns has no keys.
C14_NoDataIsEmptyMapping ==
  NoData => (pmState # "raised" /\ pmError = "none" /\ all_entries = <<>>)

\* a call returned for a list of an unreadable file and a text without match
C14_Witness ==
  /\ pmState = "returned"
  /\ NoData
  /\ \E i \in 1..Len(files) : ~Readable(files[i])
  /\ \E i \in 1..Len(files) : Readable(files[i])

IsPrefix(a, b) == Len(a) <= Len(b) /\ SubSeq(b, 1, Len(a)) = a

\* C17: the mapping only grows while the files are processed: a step keeps
\* every key at its place, every list keeps its previous value as a prefix,
\* and a step over an unreadable file leaves the mapping as it was.
C17_MappingOnlyGrows ==
  [][/\ Len(all_entries) <= Len(all_entries')
     /\ \A i \in 1..Len(all_entries) :
          /\ all_entries'[i].key = all_entries[i].key
          /\ IsPrefix(all_entries[i].val, all_entries'[i].val)
     /\ (idx <= Len(files) /\ ~Readable(files[idx])) => all_entries' = all_entries]_vars

\* the second file added an entry to the book of the first
C17_Witness ==
  /\ idx = 3
  /\ Len(all_entries) = 1
  /\ Len(all_entries[1].val) = 2
  /\ Len(files[1].matches) = 1

\* C20: at every step each entry stored under key b has book_number b, no
\* key occurs twice or maps to an empty list, and the mapping is empty exactly
\* when no entry was parsed from the files processed so far.
C20_KeysMatchBooks ==
  /\ \A i \in 1..Len(all_entries) :
       /\ Len(all_entries[i].val) >= 1
       /\ \A j \in 1..Len(all_entries[i].val) :
            all_entries[i].val[j].book_number = all_entries[i].key
       /\ \A k \in 1..Len(all_entries) : all_entries[k].key = all_entries[i].key => k = i
  /\ pmState # "raised" =>
       (all_entries = <<>> <=> EntriesOfFiles(SubSeq(files, 1, idx - 1)) = <<>>)

\* a mapping of two books was returned, the second book first
C20_Witness ==
  /\ pmState = "returned"
  /\ Len(all_entries) = 2
  /\ all_entries[1].key = 2
  /\ all_entries[2].key = 1

C1_UnreadableFilesSkipped ==
  /\ pmError \notin {"FileNotFoundError", "IOError"}
  /\ ~pattern.custom => pmState # "raised"
  /\ Finished =>
       LET r == parse_multiple(ReadableFiles) IN
         /\ r.state = pmState
         /\ r.err = pmError
         /\ pmState = "returned" => r.d = all_entries
  /\ pmState = "returned" => Len(warnings) = Len(files) - Len(ReadableFiles)

\* C1 witness: a call returned entries although a file before a parsed one
\* was missing and another was unreadable
C1_Witness ==
  /\ pmState = "returned"
  /\ Len(all_entries) > 0
  /\ \E i, j \in 1..Len(files) :
       /\ i < j
       /\ ~Readable(files[i])
       /\ Readable(files[j])
       /\ Len(files[j].matches) > 0

\* C2: under a four-group pattern a match whose book number cannot be made
\* an integer, or whose tag block is absent, is dropped without an exception
\* and every other match still yields its entry.
C2_MalformedMatchDropped ==
  pattern.ngroups = 4 =>
    /\ pmState # "raised"
    /\ pmState = "returned" =>
         \A b \in {all_entries[i].key : i \in 1..Len(all_entries)} :
           DictGet(all_entries, b) = EntriesOfBook(EntriesOfFiles(files), b)

IsPageToken(p) ==
  \/ IsDigits(p)
  \/ \E i \in 1..Len(p) :
       /\ p[i] = "-"
       /\ IsDigits(SubSeq(p, 1, i - 1))
       /\ IsDigits(SubSeq(p, i + 1, Len(p)))

\* C3: no entry of the mapping carries a page_number that is not digits or
\* digits-hyphen-digits.
C3_PageTokenWellFormed ==
  \A i \in 1..Len(all_entries) :
    \A j \in 1..Len(all_entries[i].val) :
      IsPageToken(all_entries[i].val[j].page_number)

\* C4: with a pattern whose group count is not four, parse_multiple fails
\* before any file is processed and never returns a mapping.
C4_WrongArityFailsFast ==
  (pattern.ngroups # 4 /\ \E i \in 1..Len(files) : Len(files[i].matches) > 0)
    => (Finished => (pmState = "raised" /\ idx = 1))

\* C6: the list returned for book b is the concatenation, in file order, of
\* each readable file's entries for b in their order of appearance; the keys
\* are exactly the books that have an entry.
C6_MergeOrder ==
  pmState = "returned" =>
    LET es == EntriesOfFiles(files) IN
      /\ \A i \in 1..Len(all_entries) :
           /\ all_entries[i].val = EntriesOfBook(es, all_entries[i].key)
           /\ all_entries[i].val # <<>>
      /\ \A n \in 1..Len(es) : DictHas(all_entries, es[n].book_number)
      /\ \A i, j \in 1..Len(all_entries) :
           all_entries[i].key = all_entries[j].key => i = j

\* C6 witness: two files each contributed an entry to the same book
C6_Witness ==
  /\ pmState = "returned"
  /\ \E i, j \in 1..Len(files) :
       /\ i < j
       /\ Readable(files[i])
       /\ Readable(files[j])
       /\ \E b \in {all_entries[k].key : k \in 1..Len(all_entries)} :
            /\ EntriesOfBook(parse(files[i]).entries, b) # <<>>
            /\ EntriesOfBook(parse(files[j]).entries, b) # <<>>
            /\ parse(files[i]).entries # parse(files[j]).entries

----------------------------------------------------------------------------
(* Properties of the tag index and the statistics *)

\* the positions <<i, j>> of the entries in the generator's mapping
EntryPositions ==
  UNION {{<<i, j>> : j \in 1..Len(gen_entries[i].val)} : i \in 1..Len(gen_entries)}

EntryAt(q) == gen_entries[q[1]].val[q[2]]

TagsUsed ==
  UNION {{EntryAt(q).tags[k] : k \in 1..Len(EntryAt(q).tags)} : q \in EntryPositions}

TagKeys == {tag_index[i].key : i \in 1..Len(tag_index)}

\* the entries in the order _build_tag_index meets them: book keys as
\* encountered, then the order of each per-book list
RECURSIVE Flatten(_)
Flatten(d) == IF Len(d) = 0 THEN <<>> ELSE d[1].val \o Flatten(Tail(d))

Occurrences(seq, x) == Cardinality({k \in 1..Len(seq) : seq[k] = x})

\* e once for every occurrence of t in e.tags, in the order of es
RECURSIVE InsertionOrder(_, _)
InsertionOrder(es, t) ==
  IF Len(es) = 0 THEN <<>>
  ELSE [k \in 1..Occurrences(es[1].tags, t) |-> es[1]] \o InsertionOrder(Tail(es), t)

\* the numeric value of a page token: the lower bound of a range, the value
\* of a number, otherwise 0
NumericPage(p) ==
  IF Contains(p, "-") THEN DigitsValue(SplitFirst(p, "-"))
  ELSE IF IsDigits(p) THEN DigitsValue(p) ELSE 0

\* C5: the numeric page value is defined for every page token, so building
\* the tag index never raises.
C5_PageValueNeverRaises ==
  /\ \A q \in EntryPositions : _parse_page_num(EntryAt(q).page_number).ok
  /\ tiState # "raised"

\* C7: the keys of the tag index are exactly the tags carried by entries,
\* and an entry occurs in bucket t as often as t occurs in the tags of the
\* entries equal to it; nothing else is in a bucket.
C7_TagIndexComplete ==
  tiState = "built" =>
    /\ TagKeys = TagsUsed
    /\ \A i, j \in 1..Len(tag_index) : tag_index[i].key = tag_index[j].key => i = j
    /\ \A i \in 1..Len(tag_index) :
         LET t == tag_index[i].key
             bucket == tag_index[i].val
         IN \A e \in {EntryAt(q) : q \in EntryPositions}
                       \cup {bucket[n] : n \in 1..Len(bucket)} :
              Occurrences(bucket, e) =
                Cardinality({<<q, k>> \in EntryPositions \X (1..Len(e.tags)) :
                               EntryAt(q) = e /\ e.tags[k] = t})
    /\ \A q \in EntryPositions :
         Cardinality({i \in 1..Len(tag_index) :
                        Occurrences(tag_index[i].val, EntryAt(q)) > 0})
           = Cardinality({EntryAt(q).tags[k] : k \in 1..Len(EntryAt(q).tags)})

\* C7 witness: an index was built from an entry with two different tags and
\* an entry that repeats a tag
C7_Witness ==
  /\ tiState = "built"
  /\ \E q \in EntryPositions :
       Cardinality({EntryAt(q).tags[k] : k \in 1..Len(EntryAt(q).tags)}) > 1
  /\ \E q \in EntryPositions :
       \E k, l \in 1..Len(EntryAt(q).tags) :
         k # l /\ EntryAt(q).tags[k] = EntryAt(q).tags[l]

\* C8: every bucket is non-decreasing in (book_number, numeric page value),
\* a range counting as its lower bound, and entries of equal key stay in the
\* order of their insertion.
C8_BucketsSorted ==
  tiState = "built" =>
    \A i \in 1..Len(tag_index) :
      LET bucket == tag_index[i].val
          inserted == InsertionOrder(Flatten(gen_entries), tag_index[i].key)
          Key(e) == <<e.book_number, NumericPage(e.page_number)>>
      IN /\ \A m, n \in 1..Len(bucket) :
              m < n => ~KeyLess(Key(bucket[n]), Key(bucket[m]))
         /\ \A m \in 1..Len(bucket) :
              LET SameKey(e) == Key(e) = Key(bucket[m])
              IN SelectSeq(bucket, SameKey) = SelectSeq(inserted, SameKey)

\* C8 witness: a bucket whose order differs from the insertion order, with a
\* range sorted by its lower bound and two different entries of equal key
C8_Witness ==
  /\ tiState = "built"
  /\ \E i \in 1..Len(tag_index) :
       LET bucket == tag_index[i].val IN
         /\ bucket # InsertionOrder(Flatten(gen_entries), tag_index[i].key)
         /\ \E m, n \in 1..Len(bucket) :
              /\ m < n
              /\ bucket[m].book_number = bucket[n].book_number
              /\ bucket[m].page_number = P1to2
              /\ bucket[n].page_number = P2
         /\ \E m, n \in 1..Len(bucket) :
              /\ m < n
              /\ bucket[m] # bucket[n]
              /\ bucket[m].book_number = bucket[n].book_number
              /\ NumericPage(bucket[m].page_number) = NumericPage(bucket[n].page_number)

\* C9: total_slides is the number of entries of the mapping, total_books the
\* number of book keys, total_tags the number of distinct tags, and no
\* top_tags item reports more books than occurrences.
C9_StatisticsConsistent ==
  statsState = "returned" =>
    /\ stats.total_slides = Cardinality(EntryPositions)
    /\ stats.total_books = Cardinality({gen_entries[i].key : i \in 1..Len(gen_entries)})
    /\ stats.total_tags = Cardinality(TagsUsed)
    /\ \A n \in 1..Len(stats.top_tags) : stats.top_tags[n].books <= stats.top_tags[n].count

\* C9 witness: statistics of two books where an entry carries two tags
C9_Witness ==
  /\ statsState = "returned"
  /\ stats.total_books = 2
  /\ stats.total_slides >= 2
  /\ \E n \in 1..Len(stats.top_tags) :
       stats.top_tags[n].books < stats.top_tags[n].count
  /\ \E q \in EntryPositions :
       Cardinality({EntryAt(q).tags[k] : k \in 1..Len(EntryAt(q).tags)}) > 1

\* tag i of the index is listed before tag j
RankedBefore(i, j) ==
  \/ Len(tag_index[i].val) > Len(tag_index[j].val)
  \/ Len(tag_index[i].val) = Len(tag_index[j].val) /\ i < j

Rank(i) == 1 + Cardinality({j \in 1..Len(tag_index) : RankedBefore(j, i)})

\* C10: top_tags holds the min(20, number of tags) tags of largest bucket,
\* in descending bucket size, equal sizes in the key order of the tag index,
\* each with its tag, its bucket length and its number of distinct books.
C10_TopTags ==
  statsState = "returned" =>
    /\ Len(stats.top_tags) = IF Len(tag_index) < 20 THEN Len(tag_index) ELSE 20
    /\ \A i \in 1..Len(tag_index) :
         Rank(i) <= Len(stats.top_tags) =>
           LET item == stats.top_tags[Rank(i)]
               bucket == tag_index[i].val
           IN /\ item.tag = tag_index[i].key
              /\ item.count = Len(bucket)
              /\ item.books = Cardinality({bucket[n].book_number : n \in 1..Len(bucket)})
    /\ \A m, n \in 1..Len(stats.top_tags) :
         m < n => stats.top_tags[m].count >= stats.top_tags[n].count

\* C10 witness: more than 20 tags, the largest bucket belonging to a tag
\* that is not among the first 20 keys, and tags of equal size listed
C10_Witness ==
  /\ statsState = "returned"
  /\ Len(tag_index) > 20
  /\ Len(stats.top_tags) = 20
  /\ stats.top_tags[1].tag = tag_index[Len(tag_index)].key
  /\ stats.top_tags[2].count = stats.top_tags[3].count
  /\ stats.top_tags[1].books = 2

C19_GeneratorsAgree ==
  /\ compactState # "none" =>
       /\ compactState = tiState
       /\ compactError = tiError
       /\ compact_index = tag_index
  /\ compactStatsState = "returned" => compact_stats = stats

\* both generators reported statistics on an index whose bucket holds a range
\* in front of the page it starts below
C19_Witness ==
  /\ compactStatsState = "returned"
  /\ statsState = "returned"
  /\ \E i \in 1..Len(compact_index) :
       /\ Len(compact_index[i].val) >= 2
       /\ compact_index[i].val[1].page_number = P1to2
       /\ compact_index[i].val[2].page_number = P2
       /\ compact_index[i].val[1].book_number = compact_index[i].val[2].book_number

\* nothing to do: the glob found no file, or parse_multiple returned {}
NothingToDo == Len(files) = 0 \/ (pmState = "returned" /\ Len(all_entries) = 0)

\* C13: for books, master and compact alike, when no index file is found or
\* parse_multiple returns an empty mapping, the command exits with a non-zero
\* status and neither constructs a generator nor produces a document.
C13_NothingToDoExitsNonZero ==
  NothingToDo =>
    /\ generators = 0
    /\ documents = 0
    /\ cliStep # "done"
    /\ cliStep = "exited" => exit_code # 0

====
